---------------------------- MODULE Spec2Model ----------------------------
(***************************************************************************)
(* Model of aiohttp_poe/samples/debugbot.py: the DebugBot option registry, *)
(* its command dispatcher, the retry-aware error emitter and the per-turn  *)
(* event sequence of get_response.                                         *)
(*                                                                         *)
(* A Python str is a sequence of one-character strings.  A Python / JSON   *)
(* value is a record [k, b, n, s, l] whose field k names the type          *)
(* ("bool", "int", "null", "str", "list") and whose other fields hold the  *)
(* payload of that type (the unused ones hold a fixed filler).             *)
(***************************************************************************)
EXTENDS Integers, Sequences, FiniteSets, TLC

(***************************************************************************)
(* Bounds of the model                                                     *)
(***************************************************************************)
\* Error events emitted in a run.
MaxErrors == 5
\* Reports waiting in self.requests.
MaxRequests == 2
\* Turns that can be in flight at once (Spec serves them one at a time,
\* SpecConc resumes them in any order).
MaxTurns == 2


(***************************************************************************)
(* Python values                                                           *)
(***************************************************************************)
VBool(x) == [k |-> "bool", b |-> x, n |-> 0, s |-> <<>>, l |-> <<>>]
VInt(x) == [k |-> "int", b |-> FALSE, n |-> x, s |-> <<>>, l |-> <<>>]
VNone == [k |-> "null", b |-> FALSE, n |-> 0, s |-> <<>>, l |-> <<>>]
VStr(x) == [k |-> "str", b |-> FALSE, n |-> 0, s |-> x, l |-> <<>>]
VList(x) == [k |-> "list", b |-> FALSE, n |-> 0, s |-> <<>>, l |-> x]

\* The result of an operation that may raise: ok = FALSE stands for any
\* exception (AssertionError, ValueError, JSONDecodeError, NameError ...).
Raised == [ok |-> FALSE, v |-> VNone]
Returned(x) == [ok |-> TRUE, v |-> x]

(***************************************************************************)
(* str methods                                                             *)
(***************************************************************************)
Whitespace == {" ", "\t", "\n", "\r"}
Digits == {"0", "1", "2", "3", "4", "5", "6", "7", "8", "9"}

DigitValue(c) ==
    CASE c = "0" -> 0 [] c = "1" -> 1 [] c = "2" -> 2 [] c = "3" -> 3
      [] c = "4" -> 4 [] c = "5" -> 5 [] c = "6" -> 6 [] c = "7" -> 7
      [] c = "8" -> 8 [] c = "9" -> 9

\* str.lower() on one character.
LowerChar(c) ==
    CASE c = "A" -> "a" [] c = "B" -> "b" [] c = "C" -> "c" [] c = "D" -> "d"
      [] c = "E" -> "e" [] c = "F" -> "f" [] c = "G" -> "g" [] c = "H" -> "h"
      [] c = "I" -> "i" [] c = "J" -> "j" [] c = "K" -> "k" [] c = "L" -> "l"
      [] c = "M" -> "m" [] c = "N" -> "n" [] c = "O" -> "o" [] c = "P" -> "p"
      [] c = "Q" -> "q" [] c = "R" -> "r" [] c = "S" -> "s" [] c = "T" -> "t"
      [] c = "U" -> "u" [] c = "V" -> "v" [] c = "W" -> "w" [] c = "X" -> "x"
      [] c = "Y" -> "y" [] c = "Z" -> "z" [] OTHER -> c

\* str.lower()
Lower(s) == [i \in 1..Len(s) |-> LowerChar(s[i])]

\* Index of the first character of s at or after i that is not whitespace
\* (Len(s) + 1 when there is none).
RECURSIVE SkipSpace(_, _)
SkipSpace(s, i) ==
    IF i <= Len(s) /\ s[i] \in Whitespace THEN SkipSpace(s, i + 1) ELSE i

\* Index of the first whitespace character of s at or after i
\* (Len(s) + 1 when there is none).
RECURSIVE SkipWord(_, _)
SkipWord(s, i) ==
    IF i <= Len(s) /\ s[i] \notin Whitespace THEN SkipWord(s, i + 1) ELSE i

\* Index of the last character of s at or before i that is not whitespace
\* (0 when there is none).
RECURSIVE SkipSpaceBack(_, _)
SkipSpaceBack(s, i) ==
    IF i >= 1 /\ s[i] \in Whitespace THEN SkipSpaceBack(s, i - 1) ELSE i

\* str.strip()
Strip(s) == SubSeq(s, SkipSpace(s, 1), SkipSpaceBack(s, Len(s)))

\* str.split(None, 1): at most two pieces, the first whitespace-delimited word
\* and the rest with its leading whitespace removed (trailing whitespace kept);
\* no piece for a string of whitespace only.
Split1(s) ==
    LET a == SkipSpace(s, 1)
        b == SkipWord(s, a)
        c == SkipSpace(s, b)
    IN  IF a > Len(s) THEN <<>>
        ELSE IF c > Len(s) THEN <<SubSeq(s, a, b - 1)>>
        ELSE <<SubSeq(s, a, b - 1), SubSeq(s, c, Len(s))>>

\* Index of the first occurrence of character ch in s at or after i
\* (Len(s) + 1 when there is none).
RECURSIVE Find(_, _, _)
Find(s, ch, i) ==
    IF i <= Len(s) /\ s[i] # ch THEN Find(s, ch, i + 1) ELSE i

\* Partition that reports the separator also when "=" is absent.
PartitionAlways(s) ==
    LET p == Find(s, "=", 1)
    IN  <<SubSeq(s, 1, p - 1), <<"=">>, SubSeq(s, p + 1, Len(s))>>

\* str.partition("="): <<head, sep, tail>>, sep empty when "=" is absent.
Partition(s) ==
    LET p == Find(s, "=", 1)
    IN  IF p > Len(s) THEN <<s, <<>>, <<>>>>
        ELSE <<SubSeq(s, 1, p - 1), <<"=">>, SubSeq(s, p + 1, Len(s))>>

\* str.startswith(ch) for a one-character prefix.
StartsWith(s, ch) == Len(s) >= 1 /\ s[1] = ch

(***************************************************************************)
(* int(str)                                                                *)
(***************************************************************************)
\* Value of the digit string d read after the accumulated value acc; single
\* underscores between digits are skipped as int() does.
RECURSIVE DigitsValue(_, _, _)
DigitsValue(d, i, acc) ==
    IF i > Len(d) THEN acc
    ELSE IF d[i] = "_" THEN DigitsValue(d, i + 1, acc)
    ELSE DigitsValue(d, i + 1, 10 * acc + DigitValue(d[i]))

\* d is a non-empty run of digits in which underscores stand only singly
\* between two digits.
IsDigitRun(d) ==
    /\ Len(d) >= 1
    /\ \A i \in 1..Len(d) :
          \/ d[i] \in Digits
          \/ /\ d[i] = "_"
             /\ i > 1 /\ i < Len(d)
             /\ d[i - 1] \in Digits /\ d[i + 1] \in Digits

\* int(s): surrounding whitespace is ignored, one sign is allowed; anything
\* else raises ValueError.
PyInt(s) ==
    LET t == Strip(s)
        signed == Len(t) >= 1 /\ t[1] \in {"+", "-"}
        d == IF signed THEN SubSeq(t, 2, Len(t)) ELSE t
        mag == DigitsValue(d, 1, 0)
    IN  IF ~IsDigitRun(d) THEN Raised
        ELSE Returned(VInt(IF signed /\ t[1] = "-" THEN 0 - mag ELSE mag))

(***************************************************************************)
(* json.loads(str), for documents made of strings, integers, true, false,  *)
(* null and arrays of these (the inputs of the model hold no object, no    *)
(* fraction or exponent, no NaN or Infinity and no \b, \f or \u escape).   *)
(***************************************************************************)
\* The result of scanning one value: ok, the value, and the index after it.
ScanFail == [ok |-> FALSE, v |-> VNone, i |-> 0]
Scanned(x, j) == [ok |-> TRUE, v |-> x, i |-> j]

\* s holds the characters of lit from index i on.
HasLiteral(s, i, lit) ==
    /\ i + Len(lit) - 1 <= Len(s)
    /\ SubSeq(s, i, i + Len(lit) - 1) = lit

\* The character an escape \c of a JSON string stands for.
Unescape(c) ==
    CASE c = "n" -> "\n" [] c = "t" -> "\t" [] c = "r" -> "\r" [] OTHER -> c

\* py_scanstring: i is the index after the opening quote, acc the characters
\* read so far.  A control character inside the literal is an error (strict).
RECURSIVE ScanString(_, _, _)
ScanString(s, i, acc) ==
    IF i > Len(s) THEN ScanFail
    ELSE IF s[i] = "\"" THEN Scanned(VStr(acc), i + 1)
    ELSE IF s[i] \in {"\t", "\n", "\r"} THEN ScanFail
    ELSE IF s[i] = "\\"
         THEN IF i + 1 <= Len(s) /\ s[i + 1] \in {"\"", "\\", "/", "n", "t", "r"}
              THEN ScanString(s, i + 2, Append(acc, Unescape(s[i + 1])))
              ELSE ScanFail
    ELSE ScanString(s, i + 1, Append(acc, s[i]))

\* Index after the run of digits of s that starts at i.
RECURSIVE SkipDigits(_, _)
SkipDigits(s, i) ==
    IF i <= Len(s) /\ s[i] \in Digits THEN SkipDigits(s, i + 1) ELSE i

\* NUMBER_RE, integer part: -?(0|[1-9][0-9]*)
ScanNumber(s, i) ==
    LET neg == s[i] = "-"
        a == IF neg THEN i + 1 ELSE i
        b == IF a <= Len(s) /\ s[a] = "0" THEN a + 1 ELSE SkipDigits(s, a)
        mag == DigitsValue(SubSeq(s, a, b - 1), 1, 0)
    IN  IF b = a THEN ScanFail
        ELSE Scanned(VInt(IF neg THEN 0 - mag ELSE mag), b)

\* scan_once and JSONArray: ScanValue reads the value that starts at i;
\* ScanItems reads the items of an array after its "[" or after a ",".
RECURSIVE ScanValue(_, _)
RECURSIVE ScanItems(_, _, _)
ScanValue(s, i) ==
    IF i > Len(s) THEN ScanFail
    ELSE IF s[i] = "\"" THEN ScanString(s, i + 1, <<>>)
    ELSE IF s[i] = "["
         THEN LET j == SkipSpace(s, i + 1)
              IN  IF j <= Len(s) /\ s[j] = "]" THEN Scanned(VList(<<>>), j + 1)
                  ELSE ScanItems(s, j, <<>>)
    ELSE IF HasLiteral(s, i, <<"n", "u", "l", "l">>) THEN Scanned(VNone, i + 4)
    ELSE IF HasLiteral(s, i, <<"t", "r", "u", "e">>) THEN Scanned(VBool(TRUE), i + 4)
    ELSE IF HasLiteral(s, i, <<"f", "a", "l", "s", "e">>)
         THEN Scanned(VBool(FALSE), i + 5)
    ELSE IF s[i] = "-" \/ s[i] \in Digits THEN ScanNumber(s, i)
    ELSE ScanFail

ScanItems(s, i, acc) ==
    LET item == ScanValue(s, i)
        j == SkipSpace(s, item.i)
    IN  IF ~item.ok THEN ScanFail
        ELSE IF j > Len(s) THEN ScanFail
        ELSE IF s[j] = "]" THEN Scanned(VList(Append(acc, item.v)), j + 1)
        ELSE IF s[j] = ","
             THEN ScanItems(s, SkipSpace(s, j + 1), Append(acc, item.v))
        ELSE ScanFail

\* json.loads(s): one value with whitespace around it and nothing after it.
JsonLoads(s) ==
    LET r == ScanValue(s, SkipSpace(s, 1))
    IN  IF r.ok /\ SkipSpace(s, r.i) > Len(s) THEN Returned(r.v) ELSE Raised


(***************************************************************************)
(* Names and literals of debugbot.py                                       *)
(***************************************************************************)
n_previous_messages ==
    <<"n", "_", "p", "r", "e", "v", "i", "o", "u", "s", "_", "m", "e", "s",
      "s", "a", "g", "e", "s">>
skip_bot_messages ==
    <<"s", "k", "i", "p", "_", "b", "o", "t", "_", "m", "e", "s", "s", "a",
      "g", "e", "s">>
send_meta_event ==
    <<"s", "e", "n", "d", "_", "m", "e", "t", "a", "_", "e", "v", "e", "n",
      "t">>
content_type == <<"c", "o", "n", "t", "e", "n", "t", "_", "t", "y", "p", "e">>
linkify == <<"l", "i", "n", "k", "i", "f", "y">>
refetch_settings ==
    <<"r", "e", "f", "e", "t", "c", "h", "_", "s", "e", "t", "t", "i", "n",
      "g", "s">>
context_clear_window_secs ==
    <<"c", "o", "n", "t", "e", "x", "t", "_", "c", "l", "e", "a", "r", "_",
      "w", "i", "n", "d", "o", "w", "_", "s", "e", "c", "s">>
allow_user_context_clear ==
    <<"a", "l", "l", "o", "w", "_", "u", "s", "e", "r", "_", "c", "o", "n",
      "t", "e", "x", "t", "_", "c", "l", "e", "a", "r">>
suggested_reply ==
    <<"s", "u", "g", "g", "e", "s", "t", "e", "d", "_", "r", "e", "p", "l",
      "y">>

text_markdown ==
    <<"t", "e", "x", "t", "/", "m", "a", "r", "k", "d", "o", "w", "n">>
text_plain == <<"t", "e", "x", "t", "/", "p", "l", "a", "i", "n">>
ALLOWED_CONTENT_TYPES == {text_markdown, text_plain}

cmd_commands == <<"c", "o", "m", "m", "a", "n", "d", "s">>
cmd_assign == <<"a", "s", "s", "i", "g", "n">>
cmd_options == <<"o", "p", "t", "i", "o", "n", "s">>
cmd_reset == <<"r", "e", "s", "e", "t">>
cmd_error == <<"e", "r", "r", "o", "r">>
usage_assign ==
    <<"a", "s", "s", "i", "g", "n", " ", "<", "o", "p", "t", "i", "o", "n",
      ">", "=", "<", "v", "a", "l", "u", "e", ">">>
usage_error ==
    <<"e", "r", "r", "o", "r", " ", "[", "r", "e", "t", "r", "i", "e", "s",
      "]", " ", "\"", "<", "m", "e", "s", "s", "a", "g", "e", ">", "\"">>

\* The keys of ALL_COMMANDS, in declaration order.
ALL_COMMANDS == <<cmd_commands, usage_assign, cmd_options, cmd_reset, usage_error>>

lit_true == <<"t", "r", "u", "e">>
lit_none == <<"n", "o", "n", "e">>
lit_null == <<"n", "u", "l", "l">>

(***************************************************************************)
(* Option parsers: each returns the new value or raises                    *)
(***************************************************************************)
_parse_bool(old_value, value) == Returned(VBool(Lower(value) = lit_true))

_parse_content_type(old_value, value) ==
    IF value \in ALLOWED_CONTENT_TYPES THEN Returned(VStr(value)) ELSE Raised

_parse_optional_nonnegative_int(old_value, value) ==
    IF Lower(value) \in {lit_none, lit_null} THEN Returned(VNone)
    ELSE LET new_value == PyInt(value)
         IN  IF new_value.ok /\ new_value.v.n >= 0 THEN new_value ELSE Raised

\* The elements of list l other than x, in order.
RECURSIVE Without(_, _)
Without(l, x) ==
    IF l = <<>> THEN <<>>
    ELSE IF Head(l) = x THEN Without(Tail(l), x)
    ELSE <<Head(l)>> \o Without(Tail(l), x)

Contains(l, x) == \E i \in 1..Len(l) : l[i] = x

\* The check the "[" form makes on the element types of the parsed list.
ListElementsAccepted(l) == \A i \in 1..Len(l) : l[i].k = "bool"

_parse_list_str(old_value, value) ==
    IF StartsWith(value, "[")
    THEN LET new_value == JsonLoads(value)
         IN  IF new_value.ok /\ new_value.v.k = "list"
                /\ ListElementsAccepted(new_value.v.l)
             THEN new_value ELSE Raised
    ELSE IF StartsWith(value, "+")
    THEN LET addition == JsonLoads(Tail(value))
         IN  IF addition.ok /\ addition.v.k = "str"
                /\ ~Contains(old_value.l, addition.v)
             THEN Returned(VList(Append(old_value.l, addition.v))) ELSE Raised
    ELSE IF StartsWith(value, "-")
    THEN LET to_remove == JsonLoads(Tail(value))
             new_value == Without(old_value.l, to_remove.v)
         IN  IF to_remove.ok /\ to_remove.v.k = "str"
                /\ Len(new_value) < Len(old_value.l)
             THEN Returned(VList(new_value)) ELSE Raised
    ELSE Raised

(***************************************************************************)
(* class BotOptions: the catalog, in declaration order                     *)
(***************************************************************************)
\* list(cmd for cmd in ALL_COMMANDS if " " not in cmd)
RECURSIVE WithoutSpace(_)
WithoutSpace(cmds) ==
    IF cmds = <<>> THEN <<>>
    ELSE IF \E i \in 1..Len(Head(cmds)) : Head(cmds)[i] = " "
         THEN WithoutSpace(Tail(cmds))
    ELSE <<VStr(Head(cmds))>> \o WithoutSpace(Tail(cmds))

BotOptions ==
    << [name |-> n_previous_messages, default_value |-> VInt(1),
        parser |-> "optional_nonnegative_int"],
       [name |-> skip_bot_messages, default_value |-> VBool(TRUE),
        parser |-> "bool"],
       [name |-> send_meta_event, default_value |-> VBool(TRUE),
        parser |-> "bool"],
       [name |-> content_type, default_value |-> VStr(text_markdown),
        parser |-> "content_type"],
       [name |-> linkify, default_value |-> VBool(TRUE), parser |-> "bool"],
       [name |-> refetch_settings, default_value |-> VBool(TRUE),
        parser |-> "bool"],
       [name |-> context_clear_window_secs, default_value |-> VInt(0),
        parser |-> "optional_nonnegative_int"],
       [name |-> allow_user_context_clear, default_value |-> VBool(TRUE),
        parser |-> "bool"],
       [name |-> suggested_reply,
        default_value |-> VList(WithoutSpace(ALL_COMMANDS)),
        parser |-> "list_str"] >>

OptionNames == {BotOptions[i].name : i \in 1..Len(BotOptions)}

\* BotOptions[key]: the catalog entry of an option name.
OptionInfo(key) ==
    BotOptions[CHOOSE i \in 1..Len(BotOptions) : BotOptions[i].name = key]

\* BotOptions[key].value.parser(old_value, value)
Parser(key, old_value, value) ==
    LET p == OptionInfo(key).parser
    IN  CASE p = "bool" -> _parse_bool(old_value, value)
          [] p = "content_type" -> _parse_content_type(old_value, value)
          [] p = "optional_nonnegative_int" ->
                 _parse_optional_nonnegative_int(old_value, value)
          [] p = "list_str" -> _parse_list_str(old_value, value)

\* {opt.name: opt.value.default_value for opt in BotOptions}
DefaultOptions == [key \in OptionNames |-> OptionInfo(key).default_value]


(***************************************************************************)
(* class DebugBot: state                                                   *)
(***************************************************************************)
VARIABLES
    options,                \* self.options: option name -> current value
    error_message_counts,   \* self.error_message_counts: raw text -> count
    requests,               \* self.requests
    scenario,               \* the kind of traffic of this run (see Scenarios)
    pc,                     \* per turn: where its get_response is suspended
    query,                  \* per turn: query["query"], the inbound messages
    idx,                    \* per turn: entries already yielded by its loop
    listing,                \* per turn: the dict its _list_options iterates
    replies,                \* per turn: the list its reply loop iterates
    out,                    \* per turn: the events it has yielded so far
    seen,                   \* history: raw text -> error events emitted for it
    occurrence,             \* history, per turn: ordinal of its error event
    started                 \* history, per turn: self.options when it began

vars ==
    <<options, error_message_counts, requests, scenario, pc, query, idx,
      listing, replies, out, seen, occurrence, started>>

shared == <<options, error_message_counts, requests>>

(***************************************************************************)
(* Events                                                                  *)
(***************************************************************************)
\* self.meta_event(content_type=..., linkify=..., refetch_settings=...)
meta_event(ct, lf, rs) ==
    [type |-> "Meta", content_type |-> ct, linkify |-> lf,
     refetch_settings |-> rs]

\* self.text_event(f"..."): fmt names the f-string, str and val are the
\* text and the value it interpolates.
text_event(fmt, str, val) ==
    [type |-> "Text", fmt |-> fmt, str |-> str, val |-> val]

\* self.text_event of the json.dumps of the requests (line 213): one request
\* is dumped bare, several as a list; fenced is the ``` wrapping.
history_event(fenced, reqs) ==
    [type |-> "Text", fmt |-> "history", fenced |-> fenced, reqs |-> reqs]

\* self.suggested_reply_event(reply)
suggested_reply_event(reply) == [type |-> "SuggestedReply", val |-> reply]

\* self.error_event(message, allow_retry=...)
error_event(message, allow_retry) ==
    [type |-> "Error", val |-> message, allow_retry |-> allow_retry]

(***************************************************************************)
(* get_response, lines 190-193: the command and its arguments              *)
(***************************************************************************)
\* query_data["query"][-1]["content"].strip()
LastMessage(q) == Strip(q[Len(q)].content)

\* cmd, *args = last_message.split(None, 1) raises ValueError when the
\* stripped message is empty.
Unpacks(q) == Split1(LastMessage(q)) # <<>>
Cmd(q) == Head(Split1(LastMessage(q)))
Args(q) == Tail(Split1(LastMessage(q)))

\* self.commands.get(cmd.lower()): the name of the handler, "echo" for None.
Handler(q) ==
    LET c == Lower(Cmd(q))
    IN  CASE c = cmd_commands -> "_list_commands"
          [] c = cmd_assign -> "_handle_option_assignment"
          [] c = cmd_options -> "_list_options"
          [] c = cmd_reset -> "_reset"
          [] c = cmd_error -> "_error"
          [] OTHER -> "echo"

(***************************************************************************)
(* The operations on the registry and on the retry ledger                  *)
(***************************************************************************)
\* _get_option
_get_option(opts, key) == opts[key]

\* _set_option that stores the outcome of the parser before it is known to
\* have succeeded.
_set_option_unchecked(opts, key, value) ==
    LET new_value == Parser(key, opts[key], value)
    IN  [ok |-> new_value.ok, options |-> [opts EXCEPT ![key] = new_value.v]]

\* _set_option that stores the raw text of the value, once it has parsed.
_set_option_raw(opts, key, value) ==
    LET new_value == Parser(key, opts[key], value)
    IN  IF new_value.ok
        THEN [ok |-> TRUE, options |-> [opts EXCEPT ![key] = VStr(value)]]
        ELSE [ok |-> FALSE, options |-> opts]

\* _set_option(key, value), lines 246-248: the options after the call, or
\* the exception of the parser.
_set_option(opts, key, value) ==
    LET new_value == Parser(key, opts[key], value)
    IN  IF new_value.ok
        THEN [ok |-> TRUE, options |-> [opts EXCEPT ![key] = new_value.v]]
        ELSE [ok |-> FALSE, options |-> opts]

\* ResetOptions that keeps the current list of replies.
ResetOptionsButReplies ==
    [key \in OptionNames |->
        IF key = suggested_reply THEN options[key]
        ELSE OptionInfo(key).default_value]

\* _reset, lines 296-299: the dict that replaces self.options.
ResetOptions == [key \in OptionNames |-> OptionInfo(key).default_value]

\* _error, lines 310-323: the (retries, message) the argument text parses to.
ParseErrorArgs(arg_str) ==
    LET pieces == Split1(arg_str)
        first == IF pieces = <<>> THEN Raised
                 ELSE _parse_optional_nonnegative_int(VInt(0), pieces[1])
        message == IF Len(pieces) = 2 THEN JsonLoads(pieces[2]) ELSE Raised
        whole == JsonLoads(arg_str)
    IN  IF first.ok /\ message.ok
        THEN [ok |-> TRUE,
              retries |-> IF first.v.k = "null" THEN 0 ELSE first.v.n,
              message |-> message.v]
        ELSE IF whole.ok
        THEN [ok |-> TRUE, retries |-> 0, message |-> whole.v]
        ELSE [ok |-> FALSE, retries |-> 0, message |-> VNone]

\* CountError with a floor of 0 under the entry and the budget counted from
\* the second occurrence.
CountErrorOnce(counts, arg_str, retries) ==
    IF arg_str \in DOMAIN counts
    THEN counts
    ELSE [k \in DOMAIN counts \cup {arg_str} |->
             IF k = arg_str THEN retries ELSE counts[k]]

\* CountError with a ledger keyed by the parsed message: the entries of all
\* raw texts with the message of arg_str are counted down together.
CountErrorByMessage(counts, arg_str, retries) ==
    [k \in DOMAIN counts \cup {arg_str} |->
        IF k \notin DOMAIN counts THEN retries
        ELSE IF ParseErrorArgs(k).message = ParseErrorArgs(arg_str).message
        THEN counts[k] - 1
        ELSE counts[k]]

\* CountError that also drops the entries of the other raw texts whose
\* budget is spent.
CountErrorPruning(counts, arg_str, retries) ==
    LET kept == {k \in DOMAIN counts : counts[k] > 0} \cup {arg_str}
    IN  [k \in kept |->
            IF k # arg_str THEN counts[k]
            ELSE IF k \in DOMAIN counts THEN counts[k] - 1
            ELSE retries]

\* _error, lines 325-328: initialize or decrement the entry of arg_str.
CountError(counts, arg_str, retries) ==
    IF arg_str \in DOMAIN counts
    THEN [counts EXCEPT ![arg_str] = @ - 1]
    ELSE [k \in DOMAIN counts \cup {arg_str} |->
             IF k = arg_str THEN retries ELSE counts[k]]

\* AllowRetry read from the ledger as it was before CountError, where an
\* absent key reads as 0.
AllowRetryBefore(counts, arg_str) ==
    /\ arg_str \in DOMAIN error_message_counts
    /\ error_message_counts[arg_str] > 0

\* _error, line 331: allow_retry, read from the entry after CountError.
AllowRetry(counts, arg_str) == counts[arg_str] > 0

(***************************************************************************)
(* get_response, lines 199-203: the history filter                         *)
(***************************************************************************)
\* l[lo:] for any integer lo.
SliceFrom(l, lo) ==
    LET a == IF lo < 0 THEN (IF Len(l) + lo < 0 THEN 0 ELSE Len(l) + lo)
             ELSE (IF lo > Len(l) THEN Len(l) ELSE lo)
    IN  SubSeq(l, a + 1, Len(l))

IsNotBot(m) == m.role # "bot"

FilterHistory(opts, q) ==
    LET kept == IF _get_option(opts, skip_bot_messages).b
                THEN SelectSeq(q, IsNotBot) ELSE q
        n_prev == _get_option(opts, n_previous_messages)
    IN  IF n_prev.k # "null" THEN SliceFrom(kept, 0 - n_prev.n) ELSE kept

\* A dumped request: a query with its filtered messages, or a report.
QueryRequest(q) == [kind |-> "query", query |-> q]
Report(kind) == [kind |-> kind, query |-> <<>>]

(***************************************************************************)
(* get_response: one action per stretch of code between two yields         *)
(***************************************************************************)
Yield(t, ev) == out' = [out EXCEPT ![t] = Append(@, ev)]

Goto(t, label) == pc' = [pc EXCEPT ![t] = label]

\* ListedDict that holds the declared defaults, whatever was assigned.
ListedDefaults(t) == DefaultOptions

\* The dict the _list_options of turn t iterates: self.options itself, or
\* the dict that was self.options until a _reset replaced it.
ListedDict(t) == IF listing[t].live THEN options ELSE listing[t].snap
Live == [live |-> TRUE, snap |-> DefaultOptions]

\* The number of error events emitted so far.
RECURSIVE Total(_, _)
Total(f, keys) ==
    IF keys = {} THEN 0
    ELSE LET k == CHOOSE x \in keys : TRUE IN f[k] + Total(f, keys \ {k})

\* q asks for an error event that the arguments parse to.
IsErrorQuery(q) ==
    /\ Unpacks(q) /\ Handler(q) = "_error" /\ Len(Args(q)) = 1
    /\ ParseErrorArgs(Args(q)[1]).ok

\* The transport calls get_response(query, request) for a new turn.
StartTurn(t, q) ==
    /\ pc[t] \in {"idle", "done", "fault"}
    /\ IsErrorQuery(q) => Total(seen, DOMAIN seen) < MaxErrors
    /\ pc' = [pc EXCEPT ![t] = "start"]
    /\ query' = [query EXCEPT ![t] = q]
    /\ out' = [out EXCEPT ![t] = <<>>]
    /\ idx' = [idx EXCEPT ![t] = 0]
    /\ listing' = [listing EXCEPT ![t] = Live]
    /\ replies' = [replies EXCEPT ![t] = <<>>]
    /\ occurrence' = [occurrence EXCEPT ![t] = 0]
    /\ started' = [started EXCEPT ![t] = options]
    /\ UNCHANGED <<shared, scenario, seen>>

\* Lines 184-189: the meta event.
SendMeta(t) ==
    /\ pc[t] = "start"
    /\ _get_option(options, send_meta_event).b
    /\ Yield(t, meta_event(_get_option(options, content_type),
                           _get_option(options, linkify),
                           _get_option(options, refetch_settings)))
    /\ Goto(t, "meta")
    /\ UNCHANGED <<shared, scenario, query, idx, listing, replies, seen,
                   occurrence, started>>

\* Turn t is about to run lines 190-193.
AtDispatch(t) ==
    \/ pc[t] = "meta"
    \/ pc[t] = "start" /\ ~_get_option(options, send_meta_event).b

\* Line 192 raises ValueError: the exception leaves get_response.
Unpack(t) ==
    /\ AtDispatch(t)
    /\ ~Unpacks(query[t])
    /\ Goto(t, "fault")
    /\ UNCHANGED <<shared, scenario, query, idx, listing, replies, out, seen,
                   occurrence, started>>

\* Line 197: no handler, the message is echoed.
Echo(t) ==
    /\ AtDispatch(t)
    /\ Unpacks(query[t]) /\ Handler(query[t]) = "echo"
    /\ Yield(t, text_event("echo", LastMessage(query[t]), VNone))
    /\ Goto(t, "handler")
    /\ UNCHANGED <<shared, scenario, query, idx, listing, replies, seen,
                   occurrence, started>>

\* _list_commands up to its first yield: the warning, or the first command.
ListCommands(t) ==
    /\ AtDispatch(t)
    /\ Unpacks(query[t]) /\ Handler(query[t]) = "_list_commands"
    /\ IF Len(Args(query[t])) # 0
       THEN /\ Yield(t, text_event("warning", Args(query[t])[1], VNone))
            /\ idx' = [idx EXCEPT ![t] = 0]
       ELSE /\ Yield(t, text_event("command", ALL_COMMANDS[1], VNone))
            /\ idx' = [idx EXCEPT ![t] = 1]
    /\ Goto(t, "commands")
    /\ UNCHANGED <<shared, scenario, query, listing, replies, seen,
                   occurrence, started>>

\* _list_commands, line 288-289: the next command.
NextCommand(t) ==
    /\ pc[t] = "commands"
    /\ idx[t] < Len(ALL_COMMANDS)
    /\ Yield(t, text_event("command", ALL_COMMANDS[idx[t] + 1], VNone))
    /\ idx' = [idx EXCEPT ![t] = @ + 1]
    /\ UNCHANGED <<shared, scenario, pc, query, listing, replies, seen,
                   occurrence, started>>

\* _handle_option_assignment: every path yields one text event.
Assign(t) ==
    /\ AtDispatch(t)
    /\ Unpacks(query[t]) /\ Handler(query[t]) = "_handle_option_assignment"
    /\ LET args == Args(query[t])
           parts == Partition(args[1])
           key == Strip(Lower(parts[1]))
           set == _set_option(options, key, parts[3])
       IN  IF Len(args) # 1 \/ parts[2] # <<"=">>
           THEN /\ Yield(t, text_event("assign_usage", <<>>, VNone))
                /\ UNCHANGED options
           ELSE IF key \notin DOMAIN options
           THEN /\ Yield(t, text_event("no_such_option", key, VNone))
                /\ UNCHANGED options
           ELSE IF set.ok
           THEN /\ options' = set.options
                /\ Yield(t, text_event("set_option", key, set.options[key]))
           ELSE /\ Yield(t, text_event("could_not_set", key, VNone))
                /\ options' = set.options
    /\ Goto(t, "handler")
    /\ UNCHANGED <<error_message_counts, requests, scenario, query, idx,
                   listing, replies, seen, occurrence, started>>

\* _list_options up to its first yield: the warning, or the first entry of
\* self.options.items().
ListOptions(t) ==
    /\ AtDispatch(t)
    /\ Unpacks(query[t]) /\ Handler(query[t]) = "_list_options"
    /\ IF Len(Args(query[t])) # 0
       THEN /\ Yield(t, text_event("warning", Args(query[t])[1], VNone))
            /\ idx' = [idx EXCEPT ![t] = 0]
       ELSE /\ Yield(t, text_event("option", BotOptions[1].name,
                                   options[BotOptions[1].name]))
            /\ idx' = [idx EXCEPT ![t] = 1]
    /\ listing' = [listing EXCEPT ![t] = Live]
    /\ Goto(t, "options")
    /\ UNCHANGED <<shared, scenario, query, replies, seen, occurrence, started>>

\* _list_options, lines 280-281: the next entry of the dict it iterates.
NextOption(t) ==
    /\ pc[t] = "options"
    /\ idx[t] < Len(BotOptions)
    /\ Yield(t, text_event("option", BotOptions[idx[t] + 1].name,
                           ListedDict(t)[BotOptions[idx[t] + 1].name]))
    /\ idx' = [idx EXCEPT ![t] = @ + 1]
    /\ UNCHANGED <<shared, scenario, pc, query, listing, replies, seen,
                   occurrence, started>>

\* _reset, lines 296-301: self.options becomes a new dict, whose first entry
\* is yielded; a _list_options that iterates the old dict keeps it.
Restore(t) ==
    /\ options' = ResetOptions
    /\ listing' = [u \in DOMAIN listing |->
                      IF u = t THEN Live
                      ELSE IF pc[u] = "options" /\ listing[u].live
                      THEN [live |-> FALSE, snap |-> options]
                      ELSE listing[u]]
    /\ Yield(t, text_event("option", BotOptions[1].name,
                           ResetOptions[BotOptions[1].name]))
    /\ idx' = [idx EXCEPT ![t] = 1]
    /\ Goto(t, "options")

\* _reset up to its first yield: the warning (the options are restored once
\* the generator is resumed), or the restoring and the first entry.
Reset(t) ==
    /\ AtDispatch(t)
    /\ Unpacks(query[t]) /\ Handler(query[t]) = "_reset"
    /\ IF Len(Args(query[t])) # 0
       THEN /\ Yield(t, text_event("warning", Args(query[t])[1], VNone))
            /\ Goto(t, "reset")
            /\ UNCHANGED <<options, listing, idx>>
       ELSE Restore(t)
    /\ UNCHANGED <<error_message_counts, requests, scenario, query, replies,
                   seen, occurrence, started>>

\* _reset resumed after its warning.
ResetAfterWarning(t) ==
    /\ pc[t] = "reset"
    /\ Restore(t)
    /\ UNCHANGED <<error_message_counts, requests, scenario, query, replies,
                   seen, occurrence, started>>

\* _error: every path yields one event.
Error(t) ==
    /\ AtDispatch(t)
    /\ Unpacks(query[t]) /\ Handler(query[t]) = "_error"
    /\ LET args == Args(query[t])
           arg_str == args[1]
           parsed == ParseErrorArgs(arg_str)
           counts == CountError(error_message_counts, arg_str, parsed.retries)
       IN  IF Len(args) # 1
           THEN /\ Yield(t, text_event("error_needs_argument", <<>>, VNone))
                /\ UNCHANGED <<error_message_counts, seen, occurrence, started>>
           ELSE IF ~parsed.ok
           THEN /\ Yield(t, text_event("error_usage", <<>>, VNone))
                /\ UNCHANGED <<error_message_counts, seen, occurrence, started>>
           ELSE /\ error_message_counts' = counts
                /\ Yield(t, error_event(parsed.message,
                                        AllowRetry(counts, arg_str)))
                /\ seen' = [k \in DOMAIN seen \cup {arg_str} |->
                               IF k \in DOMAIN seen
                               THEN seen[k] + (IF k = arg_str THEN 1 ELSE 0)
                               ELSE 1]
                /\ occurrence' = [occurrence EXCEPT ![t] = seen'[arg_str]]
    /\ Goto(t, "handler")
    /\ UNCHANGED <<options, requests, scenario, query, idx, listing, replies,
                   started>>

\* Turn t is about to run lines 199-217: its handler has nothing left to
\* yield.
AtHistory(t) ==
    \/ pc[t] = "handler"
    \/ pc[t] = "commands" /\ idx[t] = Len(ALL_COMMANDS)
    \/ pc[t] = "options" /\ idx[t] = Len(BotOptions)

\* Lines 199-217 with a list of requests of the turn's own: nothing that
\* arrived before the turn is dumped with its history.
HistoryOfTurnOnly(t) ==
    /\ AtHistory(t)
    /\ Yield(t, history_event(
                   _get_option(options, content_type) = VStr(text_markdown),
                   <<QueryRequest(FilterHistory(options, query[t]))>>))
    /\ requests' = <<>>
    /\ Goto(t, "text")
    /\ idx' = [idx EXCEPT ![t] = 0]
    /\ listing' = [listing EXCEPT ![t] = Live]
    /\ UNCHANGED <<options, error_message_counts, scenario, query, replies,
                   seen, occurrence, started>>

\* Lines 199-217: filter the history, dump the requests, empty them.
History(t) ==
    /\ AtHistory(t)
    /\ Yield(t, history_event(
                   _get_option(options, content_type) = VStr(text_markdown),
                   Append(requests,
                          QueryRequest(FilterHistory(options, query[t])))))
    /\ requests' = <<>>
    /\ Goto(t, "text")
    /\ idx' = [idx EXCEPT ![t] = 0]
    /\ listing' = [listing EXCEPT ![t] = Live]
    /\ UNCHANGED <<options, error_message_counts, scenario, query, replies,
                   seen, occurrence, started>>

\* RepliesOf with the list that suggested_reply held as the turn began.
RepliesAsStarted(t) == started[t][suggested_reply].l

\* Lines 219-220: the list of replies is read once, then yielded one by one.
RepliesOf(t) ==
    IF pc[t] = "text" THEN _get_option(options, suggested_reply).l
    ELSE replies[t]

SuggestReply(t) ==
    /\ pc[t] \in {"text", "replies"}
    /\ idx[t] < Len(RepliesOf(t))
    /\ Yield(t, suggested_reply_event(RepliesOf(t)[idx[t] + 1]))
    /\ replies' = [replies EXCEPT ![t] = RepliesOf(t)]
    /\ idx' = [idx EXCEPT ![t] = @ + 1]
    /\ Goto(t, "replies")
    /\ UNCHANGED <<shared, scenario, query, listing, seen, occurrence, started>>

\* The loop of line 219 ends and get_response returns.
Return(t) ==
    /\ pc[t] \in {"text", "replies"}
    /\ idx[t] = Len(RepliesOf(t))
    /\ Goto(t, "done")
    /\ replies' = [replies EXCEPT ![t] = <<>>]
    /\ idx' = [idx EXCEPT ![t] = 0]
    /\ UNCHANGED <<shared, scenario, query, listing, out, seen, occurrence, started>>

(***************************************************************************)
(* The other requests of the transport                                     *)
(***************************************************************************)
\* on_feedback, on_error, get_settings: each appends a copy of its request
\* to self.requests; get_settings returns two options.
on_feedback ==
    /\ requests' = Append(requests, Report("feedback"))
    /\ UNCHANGED <<options, error_message_counts, scenario, pc, query, idx,
                   listing, replies, out, seen, occurrence, started>>

on_error ==
    /\ requests' = Append(requests, Report("error"))
    /\ UNCHANGED <<options, error_message_counts, scenario, pc, query, idx,
                   listing, replies, out, seen, occurrence, started>>

get_settings ==
    /\ requests' = Append(requests, Report("settings"))
    /\ UNCHANGED <<options, error_message_counts, scenario, pc, query, idx,
                   listing, replies, out, seen, occurrence, started>>

\* What get_settings returns.
SettingsResponse ==
    [context_clear_window_secs |->
         _get_option(options, context_clear_window_secs),
     allow_user_context_clear |->
         _get_option(options, allow_user_context_clear)]

(***************************************************************************)
(* The traffic of a run                                                    *)
(***************************************************************************)
Message(role, content) == [role |-> role, content |-> content]

\* Four earlier messages of a conversation, two of them the bot's.
Earlier ==
    <<Message("user", <<"a">>), Message("bot", <<"b">>),
      Message("system", <<"c">>), Message("bot", <<"d">>)>>

\* The last messages users send in a run of kind "error".
ErrorContents ==
    \* error 2 "boom"
    { <<"e", "r", "r", "o", "r", " ", "2", " ", "\"", "b", "o", "o", "m",
        "\"">>,
    \* ERROR  2 "boom"
      <<"E", "R", "R", "O", "R", " ", " ", "2", " ", "\"", "b", "o", "o",
        "m", "\"">>,
    \* error "boom"
      <<"e", "r", "r", "o", "r", " ", "\"", "b", "o", "o", "m", "\"">>,
    \* error 0 "boom"
      <<"e", "r", "r", "o", "r", " ", "0", " ", "\"", "b", "o", "o", "m",
        "\"">>,
    \* error 1 "boom"
      <<"e", "r", "r", "o", "r", " ", "1", " ", "\"", "b", "o", "o", "m",
        "\"">>,
    \* error none "x"
      <<"e", "r", "r", "o", "r", " ", "n", "o", "n", "e", " ", "\"", "x",
        "\"">>,
    \* error boom
      <<"e", "r", "r", "o", "r", " ", "b", "o", "o", "m">>,
    \* error 5
      <<"e", "r", "r", "o", "r", " ", "5">>,
    \* error
      <<"e", "r", "r", "o", "r">>,
    \* reset
      <<"r", "e", "s", "e", "t">>,
    \* hello there
      <<"h", "e", "l", "l", "o", " ", "t", "h", "e", "r", "e">> }

\* The last messages users send in a run of kind "list".
ListContents ==
    \* assign suggested_reply=["a"]
    { <<"a", "s", "s", "i", "g", "n", " ", "s", "u", "g", "g", "e", "s", "t",
        "e", "d", "_", "r", "e", "p", "l", "y", "=", "[", "\"", "a", "\"",
        "]">>,
    \* assign suggested_reply=[true]
      <<"a", "s", "s", "i", "g", "n", " ", "s", "u", "g", "g", "e", "s", "t",
        "e", "d", "_", "r", "e", "p", "l", "y", "=", "[", "t", "r", "u", "e",
        "]">>,
    \* assign suggested_reply=[]
      <<"a", "s", "s", "i", "g", "n", " ", "s", "u", "g", "g", "e", "s", "t",
        "e", "d", "_", "r", "e", "p", "l", "y", "=", "[", "]">>,
    \* assign suggested_reply=["a", 1]
      <<"a", "s", "s", "i", "g", "n", " ", "s", "u", "g", "g", "e", "s", "t",
        "e", "d", "_", "r", "e", "p", "l", "y", "=", "[", "\"", "a", "\"",
        ",", " ", "1", "]">>,
    \* assign suggested_reply=+"a"
      <<"a", "s", "s", "i", "g", "n", " ", "s", "u", "g", "g", "e", "s", "t",
        "e", "d", "_", "r", "e", "p", "l", "y", "=", "+", "\"", "a", "\"">>,
    \* assign suggested_reply=+"reset"
      <<"a", "s", "s", "i", "g", "n", " ", "s", "u", "g", "g", "e", "s", "t",
        "e", "d", "_", "r", "e", "p", "l", "y", "=", "+", "\"", "r", "e",
        "s", "e", "t", "\"">>,
    \* assign suggested_reply=-"reset"
      <<"a", "s", "s", "i", "g", "n", " ", "s", "u", "g", "g", "e", "s", "t",
        "e", "d", "_", "r", "e", "p", "l", "y", "=", "-", "\"", "r", "e",
        "s", "e", "t", "\"">>,
    \* assign suggested_reply=-"a"
      <<"a", "s", "s", "i", "g", "n", " ", "s", "u", "g", "g", "e", "s", "t",
        "e", "d", "_", "r", "e", "p", "l", "y", "=", "-", "\"", "a", "\"">>,
    \* assign suggested_reply=reset
      <<"a", "s", "s", "i", "g", "n", " ", "s", "u", "g", "g", "e", "s", "t",
        "e", "d", "_", "r", "e", "p", "l", "y", "=", "r", "e", "s", "e",
        "t">>,
    \* assign suggested_reply=+7
      <<"a", "s", "s", "i", "g", "n", " ", "s", "u", "g", "g", "e", "s", "t",
        "e", "d", "_", "r", "e", "p", "l", "y", "=", "+", "7">>,
    \* options
      <<"o", "p", "t", "i", "o", "n", "s">>,
    \* Options please
      <<"O", "p", "t", "i", "o", "n", "s", " ", "p", "l", "e", "a", "s",
        "e">>,
    \* reset
      <<"r", "e", "s", "e", "t">>,
    \* reset now
      <<"r", "e", "s", "e", "t", " ", "n", "o", "w">>,
    \* commands
      <<"c", "o", "m", "m", "a", "n", "d", "s">>,
    \* commands please
      <<"c", "o", "m", "m", "a", "n", "d", "s", " ", "p", "l", "e", "a", "s",
        "e">> }

\* The last messages users send in a run of kind "scalar".
ScalarContents ==
    \* assign n_previous_messages=0
    { <<"a", "s", "s", "i", "g", "n", " ", "n", "_", "p", "r", "e", "v", "i",
        "o", "u", "s", "_", "m", "e", "s", "s", "a", "g", "e", "s", "=",
        "0">>,
    \* assign n_previous_messages=2
      <<"a", "s", "s", "i", "g", "n", " ", "n", "_", "p", "r", "e", "v", "i",
        "o", "u", "s", "_", "m", "e", "s", "s", "a", "g", "e", "s", "=",
        "2">>,
    \* assign n_previous_messages=None
      <<"a", "s", "s", "i", "g", "n", " ", "n", "_", "p", "r", "e", "v", "i",
        "o", "u", "s", "_", "m", "e", "s", "s", "a", "g", "e", "s", "=", "N",
        "o", "n", "e">>,
    \* assign n_previous_messages=-1
      <<"a", "s", "s", "i", "g", "n", " ", "n", "_", "p", "r", "e", "v", "i",
        "o", "u", "s", "_", "m", "e", "s", "s", "a", "g", "e", "s", "=", "-",
        "1">>,
    \* assign skip_bot_messages=false
      <<"a", "s", "s", "i", "g", "n", " ", "s", "k", "i", "p", "_", "b", "o",
        "t", "_", "m", "e", "s", "s", "a", "g", "e", "s", "=", "f", "a", "l",
        "s", "e">>,
    \* assign content_type=text/plain
      <<"a", "s", "s", "i", "g", "n", " ", "c", "o", "n", "t", "e", "n", "t",
        "_", "t", "y", "p", "e", "=", "t", "e", "x", "t", "/", "p", "l", "a",
        "i", "n">>,
    \* assign content_type=text/html
      <<"a", "s", "s", "i", "g", "n", " ", "c", "o", "n", "t", "e", "n", "t",
        "_", "t", "y", "p", "e", "=", "t", "e", "x", "t", "/", "h", "t", "m",
        "l">>,
    \* assign send_meta_event=false
      <<"a", "s", "s", "i", "g", "n", " ", "s", "e", "n", "d", "_", "m", "e",
        "t", "a", "_", "e", "v", "e", "n", "t", "=", "f", "a", "l", "s",
        "e">>,
    \* assign linkify=nope
      <<"a", "s", "s", "i", "g", "n", " ", "l", "i", "n", "k", "i", "f", "y",
        "=", "n", "o", "p", "e">>,
    \* assign  LINKIFY =TRUE
      <<"a", "s", "s", "i", "g", "n", " ", " ", "L", "I", "N", "K", "I", "F",
        "Y", " ", "=", "T", "R", "U", "E">>,
    \* assign context_clear_window_secs=null
      <<"a", "s", "s", "i", "g", "n", " ", "c", "o", "n", "t", "e", "x", "t",
        "_", "c", "l", "e", "a", "r", "_", "w", "i", "n", "d", "o", "w", "_",
        "s", "e", "c", "s", "=", "n", "u", "l", "l">>,
    \* assign
      <<"a", "s", "s", "i", "g", "n">>,
    \* assign linkify
      <<"a", "s", "s", "i", "g", "n", " ", "l", "i", "n", "k", "i", "f",
        "y">>,
    \* assign colour=red
      <<"a", "s", "s", "i", "g", "n", " ", "c", "o", "l", "o", "u", "r", "=",
        "r", "e", "d">>,
    \* reset
      <<"r", "e", "s", "e", "t">>,
    \* hello there
      <<"h", "e", "l", "l", "o", " ", "t", "h", "e", "r", "e">>,
    \* ''
      <<>>,
    \* '   '
      <<" ", " ", " ">> }

\* The last messages users send in a run of kind "report".
ReportContents ==
    \* hello there
    { <<"h", "e", "l", "l", "o", " ", "t", "h", "e", "r", "e">>,
    \* assign n_previous_messages=None
      <<"a", "s", "s", "i", "g", "n", " ", "n", "_", "p", "r", "e", "v", "i",
        "o", "u", "s", "_", "m", "e", "s", "s", "a", "g", "e", "s", "=", "N",
        "o", "n", "e">>,
    \* `  errors  Now ` (blanks around it, two blanks inside)
      <<" ", " ", "e", "r", "r", "o", "r", "s", " ", " ", "N", "o", "w",
        " ">> }

\* The last messages of the turns that are in flight together in a run of
\* kind "concurrent": `error` with retries 1, 2 and 0.
ConcurrentContents ==
    \* error 1 "boom"
    { <<"e", "r", "r", "o", "r", " ", "1", " ", "\"", "b", "o", "o", "m",
        "\"">>,
    \* error 2 "boom"
      <<"e", "r", "r", "o", "r", " ", "2", " ", "\"", "b", "o", "o", "m",
        "\"">>,
    \* error "boom"
      <<"e", "r", "r", "o", "r", " ", "\"", "b", "o", "o", "m", "\"">> }

Contents(kind) ==
    CASE kind = "error" -> ErrorContents
      [] kind = "concurrent" -> ConcurrentContents
      [] kind = "list" -> ListContents
      [] kind = "scalar" -> ScalarContents
      [] kind = "report" -> ReportContents

\* The conversations that precede the last message in each kind of run.
Histories(kind) == IF kind = "scalar" THEN {<<>>, Earlier} ELSE {<<>>}

Scenarios == {"error", "list", "scalar", "report"}

\* The queries of a run: a history and then the user's last message.
Queries(kind) ==
    {Append(h, Message("user", c)) : h \in Histories(kind), c \in Contents(kind)}

(***************************************************************************)
(* The specification: one turn at a time                                   *)
(***************************************************************************)
\* The turns that can be in flight at once.
Turns == 1..MaxTurns

Init ==
    /\ options = DefaultOptions
    /\ error_message_counts = [k \in {} |-> 0]
    /\ requests = <<>>
    /\ scenario \in Scenarios
    /\ pc = [t \in Turns |-> "idle"]
    /\ query = [t \in Turns |-> <<>>]
    /\ idx = [t \in Turns |-> 0]
    /\ listing = [t \in Turns |-> Live]
    /\ replies = [t \in Turns |-> <<>>]
    /\ out = [t \in Turns |-> <<>>]
    /\ seen = [k \in {} |-> 0]
    /\ occurrence = [t \in Turns |-> 0]
    /\ started = [t \in Turns |-> DefaultOptions]

\* A step of turn t.
Step(t) ==
    \/ \E q \in Queries(scenario) : StartTurn(t, q)
    \/ SendMeta(t)
    \/ Unpack(t)
    \/ Echo(t)
    \/ ListCommands(t)
    \/ NextCommand(t)
    \/ Assign(t)
    \/ ListOptions(t)
    \/ NextOption(t)
    \/ Reset(t)
    \/ ResetAfterWarning(t)
    \/ Error(t)
    \/ History(t)
    \/ SuggestReply(t)
    \/ Return(t)

\* A report or a settings request arrives (in runs of kind "report", and
\* while fewer than MaxRequests wait in self.requests).
Reports ==
    /\ scenario = "report"
    /\ Len(requests) < MaxRequests
    /\ (on_feedback \/ on_error \/ get_settings)

\* The transport hands over one turn at a time: a turn is begun only when
\* the turn before it has returned or raised.
Next == Step(1) \/ Reports

Spec == Init /\ [][Next]_vars

(***************************************************************************)
(* The specification of concurrent turns: the event loop runs one turn at  *)
(* a time from one yield to the next, in any order                         *)
(***************************************************************************)
InitConc ==
    /\ options = DefaultOptions
    /\ error_message_counts = [k \in {} |-> 0]
    /\ requests = <<>>
    /\ scenario = "concurrent"
    /\ pc = [t \in Turns |-> "idle"]
    /\ query = [t \in Turns |-> <<>>]
    /\ idx = [t \in Turns |-> 0]
    /\ listing = [t \in Turns |-> Live]
    /\ replies = [t \in Turns |-> <<>>]
    /\ out = [t \in Turns |-> <<>>]
    /\ seen = [k \in {} |-> 0]
    /\ occurrence = [t \in Turns |-> 0]
    /\ started = [t \in Turns |-> DefaultOptions]

\* A step of turn t, one of the turns in flight together: each of them is
\* begun once and issues `error`.
StepConc(t) ==
    \/ \E q \in Queries(scenario) : pc[t] = "idle" /\ StartTurn(t, q)
    \/ SendMeta(t)
    \/ Error(t)
    \/ History(t)
    \/ SuggestReply(t)
    \/ Return(t)

NextConc == \E t \in Turns : StepConc(t)

SpecConc == InitConc /\ [][NextConc]_vars

(***************************************************************************)
(* Reading a turn's output                                                 *)
(***************************************************************************)
IsMeta(e) == e.type = "Meta"
IsError(e) == e.type = "Error"
IsSuggestedReply(e) == e.type = "SuggestedReply"
IsHistoryText(e) == e.type = "Text" /\ e.fmt = "history"
IsDispatched(e) == e.type = "Error" \/ (e.type = "Text" /\ e.fmt # "history")

\* The events of a turn's output that the command dispatcher produced.
Dispatched(t) == SelectSeq(out[t], IsDispatched)

\* The handler of turn t has yielded all its events.
Handled(t) == pc[t] \in {"text", "replies", "done"} \/ AtHistory(t)

\* Turn t is over: get_response returned or raised.
Over(t) == pc[t] \in {"done", "fault"}

(***************************************************************************)
(* C1: the i-th turn that issues `error` with one raw argument text, which *)
(* parses to (R, m), emits exactly one Error event, with message m and     *)
(* allow_retry = (R - (i - 1) > 0); the stored entry is R after the first  *)
(* occurrence and one less after every later one, with no floor.           *)
(***************************************************************************)
C1_RetryBudget ==
    /\ \A raw \in DOMAIN seen :
          /\ raw \in DOMAIN error_message_counts
          /\ error_message_counts[raw] =
                ParseErrorArgs(raw).retries - (seen[raw] - 1)
    /\ \A t \in Turns :
          Handled(t) /\ IsErrorQuery(query[t]) =>
             LET parsed == ParseErrorArgs(Args(query[t])[1])
                 i == occurrence[t]
             IN  /\ i >= 1
                 /\ SelectSeq(out[t], IsError) =
                       <<error_event(parsed.message,
                                     parsed.retries - (i - 1) > 0)>>

\* The fourth turn with the raw text of retries 2 is over: the budget is
\* spent and the entry is negative.
C1_Witness ==
    \E t \in Turns :
       /\ pc[t] = "done" /\ IsErrorQuery(query[t])
       /\ ParseErrorArgs(Args(query[t])[1]).retries = 2
       /\ occurrence[t] = 4
       /\ error_message_counts[Args(query[t])[1]] = 0 - 1

(***************************************************************************)
(* C2: the history of the step-4 Text event is the query without its bot   *)
(* messages when skip_bot_messages is true, cut to its last N messages     *)
(* when n_previous_messages is a number N: at most N messages for every    *)
(* N >= 0, and no bot message when skip_bot_messages is true.              *)
(***************************************************************************)
\* Turn t has yielded its step-4 Text event.
Shown(t) == pc[t] \in {"text", "replies", "done"}

\* The messages of the query that the step-4 Text event of turn t shows.
ShownHistory(t) ==
    LET dumped == SelectSeq(out[t], IsHistoryText)[1].reqs
    IN  dumped[Len(dumped)].query

\* The last n elements of l (all of l when it has fewer).
KeepLast(l, n) ==
    SubSeq(l, Len(l) - (IF n < Len(l) THEN n ELSE Len(l)) + 1, Len(l))

C2_HistoryFilter ==
    \A t \in Turns :
       Shown(t) =>
          LET skip == options[skip_bot_messages].b
              N == options[n_previous_messages]
              kept == IF skip THEN SelectSeq(query[t], IsNotBot) ELSE query[t]
          IN  /\ ShownHistory(t) =
                    IF N.k = "null" THEN kept ELSE KeepLast(kept, N.n)
              /\ N.k # "null" => Len(ShownHistory(t)) <= N.n
              /\ skip => \A i \in 1..Len(ShownHistory(t)) :
                            ShownHistory(t)[i].role # "bot"

(***************************************************************************)
(* C3: no fault leaves a turn: whatever the last message (the empty string *)
(* and whitespace included), the turn reaches step 4.                      *)
(***************************************************************************)
C3_NoFault == \A t \in Turns : pc[t] # "fault"

(***************************************************************************)
(* C4: the events of a turn are, in order: one Meta event exactly when     *)
(* send_meta_event was true as the turn began, the events of the command   *)
(* dispatcher, exactly one history Text event, then SuggestedReply events  *)
(* only.                                                                   *)
(***************************************************************************)
C4_EventOrder ==
    \A t \in Turns :
       Over(t) =>
          LET o == out[t]
              m == IF started[t][send_meta_event].b THEN 1 ELSE 0
          IN  /\ Len(SelectSeq(o, IsMeta)) = m
              /\ m = 1 => Len(o) >= 1 /\ IsMeta(o[1])
              /\ Len(SelectSeq(o, IsHistoryText)) = 1
              /\ \E h \in 1..Len(o) :
                    /\ IsHistoryText(o[h])
                    /\ \A i \in (m + 1)..(h - 1) : IsDispatched(o[i])
                    /\ \A i \in (h + 1)..Len(o) : IsSuggestedReply(o[i])

(***************************************************************************)
(* C5: the output of a turn holds exactly one SuggestedReply event per     *)
(* entry of suggested_reply, in list order, whatever the command path.     *)
(***************************************************************************)
\* The replies of the SuggestedReply events of turn t, in order.
Suggested(t) ==
    LET events == SelectSeq(out[t], IsSuggestedReply)
    IN  [i \in 1..Len(events) |-> events[i].val]

C5_SuggestedReplies ==
    \A t \in Turns : Over(t) => Suggested(t) = options[suggested_reply].l

(***************************************************************************)
(* C6: every option's current value has the shape of its default: a        *)
(* boolean, None or a non-negative integer, one of the two content types,  *)
(* a list of strings.                                                      *)
(***************************************************************************)
IsOptionalNonnegativeInt(v) == v.k = "null" \/ (v.k = "int" /\ v.n >= 0)

C6_OptionShapes ==
    /\ \A key \in {skip_bot_messages, send_meta_event, linkify,
                   refetch_settings, allow_user_context_clear} :
          options[key].k = "bool"
    /\ IsOptionalNonnegativeInt(options[n_previous_messages])
    /\ IsOptionalNonnegativeInt(options[context_clear_window_secs])
    /\ options[content_type] \in {VStr(text_markdown), VStr(text_plain)}
    /\ options[suggested_reply].k = "list"
    /\ \A i \in 1..Len(options[suggested_reply].l) :
          options[suggested_reply].l[i].k = "str"

(***************************************************************************)
(* C7: `assign suggested_reply=[...]` with a JSON array replaces the list  *)
(* when every element is a string, and fails, the list unchanged, when     *)
(* some element is not a string.                                           *)
(***************************************************************************)
\* q is `assign <key>=<value>`.
IsAssignment(q) ==
    /\ Unpacks(q) /\ Handler(q) = "_handle_option_assignment"
    /\ Len(Args(q)) = 1
    /\ Contains(Args(q)[1], "=")

\* The option name and the raw value of an assignment.
AssignedKey(q) ==
    Strip(Lower(SubSeq(Args(q)[1], 1, Find(Args(q)[1], "=", 1) - 1)))
AssignedValue(q) ==
    SubSeq(Args(q)[1], Find(Args(q)[1], "=", 1) + 1, Len(Args(q)[1]))

Confirmed(key, v) == <<text_event("set_option", key, v)>>
Refused(key) == <<text_event("could_not_set", key, VNone)>>

C7_JsonArrayForm ==
    \A t \in Turns :
       /\ Handled(t) /\ IsAssignment(query[t])
       /\ AssignedKey(query[t]) = suggested_reply
       /\ StartsWith(AssignedValue(query[t]), "[")
       /\ JsonLoads(AssignedValue(query[t])).ok
       => LET array == JsonLoads(AssignedValue(query[t])).v
          IN  IF \A i \in 1..Len(array.l) : array.l[i].k = "str"
              THEN /\ options[suggested_reply] = array
                   /\ Dispatched(t) = Confirmed(suggested_reply, array)
              ELSE /\ options[suggested_reply] = started[t][suggested_reply]
                   /\ Dispatched(t) = Refused(suggested_reply)

(***************************************************************************)
(* C8: an `assign` turn with no argument, with an argument without `=`, or *)
(* with a key that is no catalog option changes no option and has one Text *)
(* event from the dispatcher.                                              *)
(***************************************************************************)
IsMalformedAssignment(q) ==
    /\ Unpacks(q) /\ Handler(q) = "_handle_option_assignment"
    /\ \/ Len(Args(q)) = 0
       \/ ~Contains(Args(q)[1], "=")
       \/ AssignedKey(q) \notin OptionNames

C8_MalformedAssign ==
    \A t \in Turns :
       Handled(t) /\ IsMalformedAssignment(query[t]) =>
          /\ options = started[t]
          /\ Len(Dispatched(t)) = 1
          /\ Dispatched(t)[1].type = "Text"

\* Turns of each malformed kind are over, after an assignment that changed
\* the registry: here one with an unknown key.
C8_Witness ==
    \E t \in Turns :
       /\ pc[t] = "done" /\ IsAssignment(query[t])
       /\ AssignedKey(query[t]) \notin OptionNames
       /\ options # DefaultOptions

(***************************************************************************)
(* C9: when the parser of an option fails, the registry is unchanged and   *)
(* the turn has one Text event for the failure; appending a string that is *)
(* in suggested_reply fails, and so does removing one that is not.         *)
(***************************************************************************)
\* value is op followed by a JSON string literal: the string, in a list.
Edited(value, op) ==
    IF StartsWith(value, op) /\ JsonLoads(Tail(value)).ok
          /\ JsonLoads(Tail(value)).v.k = "str"
    THEN <<JsonLoads(Tail(value)).v>> ELSE <<>>

C9_FailedParse ==
    \A t \in Turns :
       /\ Handled(t) /\ IsAssignment(query[t])
       /\ AssignedKey(query[t]) \in OptionNames
       => LET key == AssignedKey(query[t])
              value == AssignedValue(query[t])
              old == started[t][suggested_reply].l
              unchanged == /\ options = started[t]
                           /\ Dispatched(t) = Refused(key)
          IN  /\ ~Parser(key, started[t][key], value).ok => unchanged
              /\ /\ key = suggested_reply
                 /\ Edited(value, "+") # <<>>
                 /\ Contains(old, Edited(value, "+")[1])
                 => unchanged
              /\ /\ key = suggested_reply
                 /\ Edited(value, "-") # <<>>
                 /\ ~Contains(old, Edited(value, "-")[1])
                 => unchanged

\* A turn that appends a string already in the list is over.
C9_Witness ==
    \E t \in Turns :
       /\ pc[t] = "done" /\ IsAssignment(query[t])
       /\ AssignedKey(query[t]) = suggested_reply
       /\ Edited(AssignedValue(query[t]), "+") # <<>>
       /\ Contains(started[t][suggested_reply].l,
                   Edited(AssignedValue(query[t]), "+")[1])
       /\ Dispatched(t) = Refused(suggested_reply)

(***************************************************************************)
(* C10: after any assignments, a `reset` turn leaves every option at its   *)
(* declared default: the registry is the registry of a new bot.            *)
(***************************************************************************)
\* Turn t is a `reset` turn that has restored the options.
HasReset(t) ==
    /\ pc[t] \in {"options", "text", "replies", "done"}
    /\ Handler(query[t]) = "_reset"

C10_ResetRestores ==
    \A t \in Turns :
       HasReset(t) =>
          \A key \in OptionNames :
             options[key] = OptionInfo(key).default_value

\* A `reset` turn is over that began with another list of replies and
\* another n_previous_messages than the defaults.
C10_Witness ==
    \E t \in Turns :
       /\ pc[t] = "done" /\ Handler(query[t]) = "_reset"
       /\ \/ started[t][suggested_reply] # DefaultOptions[suggested_reply]
          \/ started[t][n_previous_messages] #
                DefaultOptions[n_previous_messages]

(***************************************************************************)
(* C11: the step-4 Text event of a turn shows every request that waits in  *)
(* self.requests as the turn reaches step 4 (the settings queries, the     *)
(* feedback reports and the error reports received since the step-4 Text   *)
(* event before it, in order of arrival) and then the turn's own filtered  *)
(* history; self.requests is empty afterwards, so that the history of an   *)
(* earlier turn is never shown again.                                      *)
(***************************************************************************)
\* The requests that the step-4 Text event of turn t dumps.
Dumped(t) == SelectSeq(out[t], IsHistoryText)[1].reqs

\* What turn t, with its handler finished, dumps of its own.
OwnRequest(t) == QueryRequest(FilterHistory(options, query[t]))

C11_PendingRequestsShown ==
    [][\A t \in Turns :
          AtHistory(t) /\ Shown(t)' =>
             /\ Dumped(t)' = Append(requests, OwnRequest(t))
             /\ \A i \in 1..Len(requests) : requests[i].kind # "query"
             /\ requests' = <<>>]_vars

\* A turn has shown a feedback report and a settings query before its own
\* history, and the turn before it had nothing but its own to show.
C11_Witness ==
    \E t \in Turns :
       /\ pc[t] = "done"
       /\ Dumped(t) = <<Report("feedback"), Report("settings"), OwnRequest(t)>>
       /\ requests = <<>>

\* C11 as stated: the step-4 Text event shows the turn's own filtered
\* history and nothing else.
C11_OwnHistoryOnly ==
    \A t \in Turns : Shown(t) => Dumped(t) = <<OwnRequest(t)>>

(***************************************************************************)
(* C12: an `error` turn whose argument text is neither an optional         *)
(* non-negative integer followed by a JSON string literal nor, as a whole, *)
(* a JSON string literal has exactly one Text event from the dispatcher    *)
(* (the usage error), no Error event, and adds no entry to the ledger.     *)
(***************************************************************************)
\* s is a JSON string literal.
IsJsonString(s) == JsonLoads(s).ok /\ JsonLoads(s).v.k = "str"

\* arg_str is `[retries] "<message>"`.
IsErrorForm(arg_str) ==
    \/ /\ Len(Split1(arg_str)) = 2
       /\ _parse_optional_nonnegative_int(VInt(0), Split1(arg_str)[1]).ok
       /\ IsJsonString(Split1(arg_str)[2])
    \/ IsJsonString(arg_str)

\* q is an `error` command with an argument text.
IsErrorCommand(q) ==
    Unpacks(q) /\ Handler(q) = "_error" /\ Len(Args(q)) = 1

C12_MalformedError ==
    /\ \A raw \in DOMAIN error_message_counts : IsErrorForm(raw)
    /\ \A t \in Turns :
          /\ Handled(t) /\ IsErrorCommand(query[t])
          /\ ~IsErrorForm(Args(query[t])[1])
          => Dispatched(t) = <<text_event("error_usage", <<>>, VNone)>>

(***************************************************************************)
(* C13: the dispatcher's events of an `options` turn are one Text event    *)
(* per catalog option, in the order of declaration, each with the name and *)
(* the current value of the option, whatever was assigned or reset before; *)
(* with stray arguments, one warning Text event comes first.               *)
(***************************************************************************)
\* q is an `options` command.
IsListing(q) == Unpacks(q) /\ Handler(q) = "_list_options"

\* The warning of a command that takes no arguments.
Warning(q) ==
    IF Len(Args(q)) # 0
    THEN <<text_event("warning", Args(q)[1], VNone)>> ELSE <<>>

\* One Text event per catalog option, with the values of opts.
Listed(opts) ==
    [i \in 1..Len(BotOptions) |->
        text_event("option", BotOptions[i].name, opts[BotOptions[i].name])]

C13_OptionsListing ==
    \A t \in Turns :
       Handled(t) /\ IsListing(query[t]) =>
          /\ Dispatched(t) = Warning(query[t]) \o Listed(options)
          /\ \A key \in OptionNames :
                Cardinality({i \in 1..Len(Dispatched(t)) :
                                /\ Dispatched(t)[i].fmt = "option"
                                /\ Dispatched(t)[i].str = key}) = 1

\* An `options` turn with stray arguments is over, with a list of replies
\* that is not the default.
C13_Witness ==
    \E t \in Turns :
       /\ pc[t] = "done" /\ IsListing(query[t])
       /\ Len(Args(query[t])) = 1
       /\ options[suggested_reply] # DefaultOptions[suggested_reply]
       /\ Len(Dispatched(t)) = Len(BotOptions) + 1

(***************************************************************************)
(* C14: the ledger is keyed by the raw argument text: the dispatcher step  *)
(* of an `error` turn creates no key but its own raw text and changes the  *)
(* entry of no other raw text, also of one with the same parsed message.   *)
(***************************************************************************)
\* Turn t takes the step in which its handler runs up to its first yield.
Dispatches(t) == AtDispatch(t) /\ pc'[t] # pc[t]

C14_KeyedByRawText ==
    [][\A t \in Turns :
          Dispatches(t) /\ IsErrorCommand(query[t]) =>
             LET arg_str == Args(query[t])[1]
             IN  /\ DOMAIN error_message_counts' \subseteq
                       DOMAIN error_message_counts \cup {arg_str}
                 /\ \A raw \in DOMAIN error_message_counts \ {arg_str} :
                       /\ raw \in DOMAIN error_message_counts'
                       /\ error_message_counts'[raw] =
                             error_message_counts[raw]]_vars

\* Two raw texts with the same retries and the same message have entries
\* that differ.
C14_Witness ==
    \E a, b \in DOMAIN error_message_counts :
       /\ a # b
       /\ ParseErrorArgs(a).message = ParseErrorArgs(b).message
       /\ ParseErrorArgs(a).retries = ParseErrorArgs(b).retries
       /\ error_message_counts[a] = ParseErrorArgs(a).retries
       /\ error_message_counts[b] < ParseErrorArgs(b).retries

(***************************************************************************)
(* C15: a turn whose last message has no command as its first token        *)
(* (compared without regard to case) has exactly one event from the        *)
(* dispatcher, a Text event with the stripped message as it was sent, and  *)
(* no step of the turn changes the options or the ledger; a first token    *)
(* that is a command name in another case gets the events of that command. *)
(***************************************************************************)
\* The first token of q is no command.
IsNoCommand(q) == ~Unpacks(q) \/ Handler(q) = "echo"

\* What a handler can yield: the format of a Text event, "error" for Error.
Format(e) == IF e.type = "Error" THEN "error" ELSE e.fmt
Formats(handler) ==
    CASE handler = "_list_commands" -> {"warning", "command"}
      [] handler = "_handle_option_assignment" ->
            {"assign_usage", "no_such_option", "set_option", "could_not_set"}
      [] handler = "_list_options" -> {"warning", "option"}
      [] handler = "_reset" -> {"warning", "option"}
      [] handler = "_error" ->
            {"error_needs_argument", "error_usage", "error"}
      [] handler = "echo" -> {"echo"}

\* Turn t takes a step.
Steps(t) == pc'[t] # pc[t] \/ out'[t] # out[t]

C15_EchoAndRouting ==
    /\ [](\A t \in Turns :
            Over(t) =>
               IF IsNoCommand(query[t])
               THEN Dispatched(t) =
                       <<text_event("echo", LastMessage(query[t]), VNone)>>
               ELSE /\ Dispatched(t) # <<>>
                    /\ \A i \in 1..Len(Dispatched(t)) :
                          Format(Dispatched(t)[i]) \in
                             Formats(Handler(query[t])))
    /\ [][\A t \in Turns :
            /\ pc[t] \notin {"idle", "done", "fault"}
            /\ Steps(t) /\ IsNoCommand(query[t])
            => /\ options' = options
               /\ error_message_counts' = error_message_counts]_vars

(***************************************************************************)
(* C16: the keys of the ledger only grow, and the ledger changes only in   *)
(* the step of an `error` turn whose argument text the handler parses (to  *)
(* retries and a message): no other command, no echo, no report and no     *)
(* settings query changes it.                                              *)
(***************************************************************************)
C16_LedgerGrows ==
    [][/\ DOMAIN error_message_counts \subseteq DOMAIN error_message_counts'
       /\ error_message_counts' # error_message_counts =>
             \E t \in Turns :
                /\ Dispatches(t) /\ IsErrorCommand(query[t])
                /\ ParseErrorArgs(Args(query[t])[1]).ok]_vars

\* A `reset` turn is over and the ledger holds what it held: two raw
\* texts, one of them with its budget overdrawn.
C16_Witness ==
    \E t \in Turns :
       /\ pc[t] = "done" /\ Handler(query[t]) = "_reset"
       /\ Cardinality(DOMAIN error_message_counts) >= 2
       /\ \E raw \in DOMAIN error_message_counts :
             error_message_counts[raw] < 0

(***************************************************************************)
(* C17: an `assign <key>=<value>` turn whose parser returns puts what the  *)
(* parser returned for (previous value, raw value) as the current value of *)
(* the option, which a read of the option then gives, and keeps every      *)
(* other option and the ledger; the dispatcher's events are one Text event *)
(* with the name and the new value.                                        *)
(***************************************************************************)
\* What the parser of the option assigned in turn t makes of the raw value,
\* given the value the option had as the turn began.
Parsed(t) ==
    Parser(AssignedKey(query[t]), started[t][AssignedKey(query[t])],
           AssignedValue(query[t]))

\* q assigns to an option of the catalog.
IsOptionAssignment(q) == IsAssignment(q) /\ AssignedKey(q) \in OptionNames

C17_SuccessfulAssign ==
    /\ [](\A t \in Turns :
            /\ Handled(t) /\ IsOptionAssignment(query[t])
            /\ Parsed(t).ok
            => LET key == AssignedKey(query[t])
               IN  /\ _get_option(options, key) = Parsed(t).v
                   /\ \A other \in OptionNames \ {key} :
                         options[other] = started[t][other]
                   /\ Dispatched(t) = Confirmed(key, Parsed(t).v))
    /\ [][\A t \in Turns :
            Dispatches(t) /\ IsOptionAssignment(query[t]) =>
               error_message_counts' = error_message_counts]_vars

\* A turn is over that set n_previous_messages, which had been changed
\* before, to None, the parser's reading of the text it was given.
C17_Witness ==
    \E t \in Turns :
       /\ pc[t] = "done" /\ IsOptionAssignment(query[t])
       /\ AssignedKey(query[t]) = n_previous_messages
       /\ AssignedValue(query[t]) # lit_none
       /\ started[t][n_previous_messages] # DefaultOptions[n_previous_messages]
       /\ options[n_previous_messages] = VNone
       /\ Dispatched(t) = Confirmed(n_previous_messages, VNone)

(***************************************************************************)
(* C18: the Meta event of a turn carries content_type, linkify and         *)
(* refetch_settings as they were before its dispatcher ran; its history    *)
(* is filtered with skip_bot_messages and n_previous_messages, fenced by   *)
(* content_type, and its replies suggested from suggested_reply, as they   *)
(* are after its dispatcher has run.                                       *)
(***************************************************************************)
\* The Meta event that the options opts give.
MetaOf(opts) ==
    meta_event(opts[content_type], opts[linkify], opts[refetch_settings])

C18_ValuesReadWhenUsed ==
    \A t \in Turns :
       /\ pc[t] \notin {"idle", "start"} =>
             SelectSeq(out[t], IsMeta) =
                IF started[t][send_meta_event].b
                THEN <<MetaOf(started[t])>> ELSE <<>>
       /\ Shown(t) =>
             /\ ShownHistory(t) = FilterHistory(options, query[t])
             /\ SelectSeq(out[t], IsHistoryText)[1].fenced =
                   (options[content_type] = VStr(text_markdown))
       /\ pc[t] = "done" => Suggested(t) = options[suggested_reply].l

\* A turn is over that set content_type to text/plain: its Meta event says
\* text/markdown and its history is not fenced.
C18_Witness ==
    \E t \in Turns :
       /\ pc[t] = "done" /\ IsOptionAssignment(query[t])
       /\ AssignedKey(query[t]) = content_type
       /\ SelectSeq(out[t], IsMeta) # <<>>
       /\ out[t][1].content_type = VStr(text_markdown)
       /\ ~SelectSeq(out[t], IsHistoryText)[1].fenced

(***************************************************************************)
(* C19: with turns in flight together and resumed in any order, once k of  *)
(* them have issued `error` with one raw argument text, which parses to    *)
(* retries R and was no key of the ledger before, each of the k has        *)
(* emitted one Error event, exactly min(k, R) of these events have         *)
(* allow_retry = true, and the entry is R - (k - 1): the entry is written  *)
(* and read in one step of the turn.                                       *)
(***************************************************************************)
\* The turns that have issued `error` with the raw text raw.
Issued(raw) ==
    {t \in Turns : /\ Handled(t) /\ IsErrorQuery(query[t])
                   /\ Args(query[t])[1] = raw}

\* Those of them whose Error event allows a retry.
Granted(raw) ==
    {t \in Issued(raw) :
        \E i \in 1..Len(out[t]) : IsError(out[t][i]) /\ out[t][i].allow_retry}

Min(a, b) == IF a < b THEN a ELSE b

\* The raw argument texts of the turns that have been begun.
RawTexts ==
    {Args(query[t])[1] : t \in {u \in Turns : pc[u] # "idle"}}

C19_AtomicCountAndRead ==
    \A raw \in RawTexts :
       LET R == ParseErrorArgs(raw).retries
           k == Cardinality(Issued(raw))
       IN  /\ \A t \in Issued(raw) : Len(SelectSeq(out[t], IsError)) = 1
           /\ Cardinality(Granted(raw)) = Min(k, R)
           /\ k = 0 => raw \notin DOMAIN error_message_counts
           /\ k > 0 => /\ raw \in DOMAIN error_message_counts
                       /\ error_message_counts[raw] = R - (k - 1)

\* All the turns have issued `error` with the raw text of retries 1 and
\* none has gone on to its history: they are in flight together, the first
\* of them was not the first to be resumed, and the entry is overdrawn.
C19_Witness ==
    \E raw \in RawTexts :
       /\ ParseErrorArgs(raw).retries = 1
       /\ Issued(raw) = Turns
       /\ \A t \in Turns : pc[t] = "handler"
       /\ Granted(raw) = {MaxTurns}
       /\ error_message_counts[raw] = 1 - (MaxTurns - 1)

=============================================================================
